---- MODULE Spec2Model ----
(***************************************************************************)
(* Channel membership and moderation state machine of                      *)
(* server/server/channels.py: one Channel object, its role sets, its       *)
(* black list of timed bans and the lazily evaluated release of bans.      *)
(***************************************************************************)
EXTENDS Integers, FiniteSets, Sequences, TLC

\* ---------------------------------------------------------------- bounds
MaxTime == 3
MaxDuration == 1
\* the clock of the behaviours that follow a round trip
MaxTripTime == 2
\* the clock of the behaviours of the registry
MaxRegistryTime == 2

Users == {"alice", "bob", "carol"}
Durations == -1 .. MaxDuration

\* the user who creates the channel (the usernames are interchangeable)
Founders == {"alice"}

VARIABLES
    channel,    \* the Channel object: chief_admin, admins, subscribers,
                \* black_list, min_release_time
    now,        \* the clock
    last,       \* the call made last, its arguments and its outcome
    fresh,      \* users whose black_list entry was written since the last scan
    trip,       \* the round trip under way: its user, the channel at its
                \* start, the calls made so far and between them
    threads,    \* the requests running concurrently on the channel
    channels,   \* Channels._channels: channel name -> Channel
    users,      \* Users._users: the User of each registered username
    response    \* the handler that answered last and its status

vars == <<channel, now, last, fresh, trip, threads, channels, users, response>>

\* ------------------------------------------------------------- helpers
min(a, b) == IF a < b THEN a ELSE b

max(a, b) == IF a > b THEN a ELSE b

\* result of a method call: the object afterwards, the returned value and
\* the exception that left the call, if any
Result(c, r) == [ch |-> c, ret |-> r, exc |-> "none"]

Raise(c, e) == [ch |-> c, ret |-> FALSE, exc |-> e]

\* the clock read by epoch_timestamp()
epoch_timestamp == now

\* ------------------------------------------------------------- Channel
Channel(username) ==
    [chief_admin |-> username,
     admins |-> {},
     subscribers |-> {username},
     black_list |-> [u \in {} |-> 0],
     min_release_time |-> 0]

is_chief_admin(c, username) == username = c.chief_admin

is_admin(c, username) == is_chief_admin(c, username) \/ username \in c.admins

is_subscribed(c, username) == username \in c.subscribers

\* the loop of update_block_list over the entries it keeps:
\* min_release_time = min(min_release_time, time) for each of them
RECURSIVE min_release_fold(_, _)
min_release_fold(start, times) ==
    IF times = {} THEN start
    ELSE LET t == CHOOSE x \in times : TRUE
         IN min_release_fold(min(start, t), times \ {t})

\* update_block_list that also releases the bans due at the current time
update_block_list_ReleasesDue(c, timestamp) ==
    IF c.min_release_time # 0 /\ timestamp > c.min_release_time
    THEN LET removed_users == {u \in DOMAIN c.black_list : c.black_list[u] <= timestamp}
             kept == DOMAIN c.black_list \ removed_users
         IN [c EXCEPT !.min_release_time =
                          min_release_fold(0, {c.black_list[u] : u \in kept}),
                      !.black_list = [u \in kept |-> c.black_list[u]]]
    ELSE c

update_block_list(c, timestamp) ==
    IF c.min_release_time # 0 /\ timestamp > c.min_release_time
    THEN LET removed_users == {u \in DOMAIN c.black_list : c.black_list[u] < timestamp}
             kept == DOMAIN c.black_list \ removed_users
         IN [c EXCEPT !.min_release_time =
                          min_release_fold(0, {c.black_list[u] : u \in kept}),
                      !.black_list = [u \in kept |-> c.black_list[u]]]
    ELSE c

is_blocked(c, username, timestamp) ==
    LET c2 == update_block_list(c, timestamp)
    IN Result(c2, username \in DOMAIN c2.black_list)

\* promote_admin without the test on the subscription
promote_admin_NoSubscribedTest(c, username, timestamp) ==
    LET b == is_blocked(c, username, timestamp)
    IN IF b.ret THEN Result(b.ch, FALSE)
       ELSE IF ~is_chief_admin(b.ch, username)
            THEN Result([b.ch EXCEPT !.admins = @ \cup {username}], TRUE)
            ELSE Result(b.ch, FALSE)

\* promote_admin without the test on the chief admin
promote_admin_NoChiefTest(c, username, timestamp) ==
    IF ~is_subscribed(c, username) THEN Result(c, FALSE)
    ELSE LET b == is_blocked(c, username, timestamp)
         IN IF b.ret THEN Result(b.ch, FALSE)
            ELSE Result([b.ch EXCEPT !.admins = @ \cup {username}], TRUE)

promote_admin(c, username, timestamp) ==
    IF ~is_subscribed(c, username) THEN Result(c, FALSE)
    ELSE LET b == is_blocked(c, username, timestamp)
         IN IF b.ret THEN Result(b.ch, FALSE)
            ELSE IF ~is_chief_admin(b.ch, username)
                 THEN Result([b.ch EXCEPT !.admins = @ \cup {username}], TRUE)
                 ELSE Result(b.ch, FALSE)

demote_admin(c, username) ==
    IF is_admin(c, username)
    THEN IF username \in c.admins
         THEN Result([c EXCEPT !.admins = @ \ {username}], TRUE)
         ELSE Raise(c, "KeyError")
    ELSE Result(c, FALSE)

promote_chief_admin(c, username) ==
    IF is_admin(c, username)
    THEN Result([c EXCEPT !.admins = @ \cup {c.chief_admin},
                          !.chief_admin = username], TRUE)
    ELSE Result(c, FALSE)

\* subscribe without the test on the black list
subscribe_NoBlockedTest(c, username, timestamp) ==
    LET b == is_blocked(c, username, timestamp)
    IN Result([b.ch EXCEPT !.subscribers = @ \cup {username}], TRUE)

subscribe(c, username, timestamp) ==
    LET b == is_blocked(c, username, timestamp)
    IN IF b.ret THEN Result(b.ch, FALSE)
       ELSE Result([b.ch EXCEPT !.subscribers = @ \cup {username}], TRUE)

\* unsubscribe that forgets the admin role of the leaving user
unsubscribe_KeepsAdmin(c, username) ==
    IF is_chief_admin(c, username) THEN Result(c, FALSE)
    ELSE Result([c EXCEPT !.subscribers = @ \ {username}], TRUE)

\* unsubscribe without the guard on the chief admin
unsubscribe_NoChiefGuard(c, username) ==
    IF is_admin(c, username) /\ username \notin c.admins
    THEN Raise(c, "KeyError")
    ELSE Result([c EXCEPT !.admins = @ \ {username},
                          !.subscribers = @ \ {username}], TRUE)

unsubscribe(c, username) ==
    IF is_chief_admin(c, username) THEN Result(c, FALSE)
    ELSE IF is_admin(c, username) /\ username \notin c.admins
         THEN Raise(c, "KeyError")
         ELSE LET c1 == IF is_admin(c, username)
                        THEN [c EXCEPT !.admins = @ \ {username}]
                        ELSE c
                  c2 == IF is_subscribed(c1, username)
                        THEN [c1 EXCEPT !.subscribers = @ \ {username}]
                        ELSE c1
              IN Result(c2, TRUE)

\* block that leaves the banned user subscribed
block_KeepsSubscriber(c, username, duration, timestamp) ==
    IF is_admin(c, username) THEN Result(c, FALSE)
    ELSE LET release_time == max(duration, 0) + timestamp
         IN Result([c EXCEPT
                !.min_release_time = IF @ # 0 THEN min(@, release_time)
                                     ELSE release_time,
                !.black_list = [u \in DOMAIN @ \cup {username} |->
                                   IF u = username THEN release_time ELSE @[u]]],
              TRUE)

\* block that overwrites min_release_time with the new release time
block_OverwritesMinRelease(c, username, duration, timestamp) ==
    IF is_admin(c, username) THEN Result(c, FALSE)
    ELSE LET release_time == max(duration, 0) + timestamp
             c1 == IF is_subscribed(c, username)
                   THEN [c EXCEPT !.subscribers = @ \ {username}]
                   ELSE c
         IN Result([c1 EXCEPT
                !.min_release_time = release_time,
                !.black_list = [u \in DOMAIN @ \cup {username} |->
                                   IF u = username THEN release_time ELSE @[u]]],
              TRUE)

\* block that replaces the black list by the new entry alone
block_ForgetsOthers(c, username, duration, timestamp) ==
    IF is_admin(c, username) THEN Result(c, FALSE)
    ELSE LET release_time == max(duration, 0) + timestamp
             c1 == IF is_subscribed(c, username)
                   THEN [c EXCEPT !.subscribers = @ \ {username}]
                   ELSE c
         IN Result([c1 EXCEPT
                !.min_release_time = IF @ # 0 THEN min(@, release_time)
                                     ELSE release_time,
                !.black_list = [u \in {username} |-> release_time]],
              TRUE)

\* block guarded by the chief admin test only
block_ChiefGuardOnly(c, username, duration, timestamp) ==
    IF is_chief_admin(c, username) THEN Result(c, FALSE)
    ELSE LET release_time == max(duration, 0) + timestamp
         IN Result([c EXCEPT
                !.subscribers = @ \ {username},
                !.min_release_time = IF @ # 0 THEN min(@, release_time)
                                     ELSE release_time,
                !.black_list = [u \in DOMAIN @ \cup {username} |->
                                   IF u = username THEN release_time ELSE @[u]]],
              TRUE)

block(c, username, duration, timestamp) ==
    IF is_admin(c, username) THEN Result(c, FALSE)
    ELSE LET release_time == max(duration, 0) + timestamp
             c1 == IF is_subscribed(c, username)
                   THEN [c EXCEPT !.subscribers = @ \ {username}]
                   ELSE c
         IN Result([c1 EXCEPT
                !.min_release_time = IF @ # 0 THEN min(@, release_time)
                                     ELSE release_time,
                !.black_list = [u \in DOMAIN @ \cup {username} |->
                                   IF u = username THEN release_time ELSE @[u]]],
              TRUE)

\* ------------------------------------------------------------- actions
NoTrip ==
    [at |-> 0, username |-> "", chief_admin |-> "", black_list |-> [u \in {} |-> 0],
     ok |-> TRUE, block_user |-> FALSE, block_any |-> FALSE, transfer |-> FALSE]

NoThreads == [lock |-> "free", pc |-> << >>]

NoChannels == [n \in {} |-> Channel("")]

\* Users._users after Users.__init__
NoUsers == [username \in {} |-> [password |-> "", email |-> ""]]

NoResponse ==
    [handler |-> "none", channel_name |-> "", user |-> "", username |-> "",
     duration |-> 0, status |-> 0]

Call(op, username, duration, r) ==
    /\ channel' = r.ch
    /\ last' = [op |-> op, username |-> username, duration |-> duration,
                ret |-> r.ret, exc |-> r.exc]
    /\ UNCHANGED <<now, fresh, trip, threads, channels, users, response>>

Init ==
    /\ now = 1
    /\ \E founder \in Founders :
          /\ channel = Channel(founder)
          /\ last = [op |-> "init", username |-> founder, duration |-> 0,
                     ret |-> TRUE, exc |-> "none"]
    /\ fresh = {}
    /\ trip = NoTrip
    /\ threads = NoThreads
    /\ channels = NoChannels
    /\ users = NoUsers
    /\ response = NoResponse

PromoteAdmin ==
    \E u \in Users : Call("promote_admin", u, 0, promote_admin(channel, u, epoch_timestamp))

DemoteAdmin ==
    \E u \in Users : Call("demote_admin", u, 0, demote_admin(channel, u))

PromoteChiefAdmin ==
    \E u \in Users : Call("promote_chief_admin", u, 0, promote_chief_admin(channel, u))

Subscribe ==
    \E u \in Users : Call("subscribe", u, 0, subscribe(channel, u, epoch_timestamp))

Unsubscribe ==
    \E u \in Users : Call("unsubscribe", u, 0, unsubscribe(channel, u))

IsBlocked ==
    \E u \in Users : Call("is_blocked", u, 0, is_blocked(channel, u, epoch_timestamp))

Block ==
    \E u \in Users, d \in Durations :
        Call("block", u, d, block(channel, u, d, epoch_timestamp))

\* on_get_black_list: the purge run on its own before the list is read
UpdateBlockList ==
    Call("update_block_list", last.username, 0,
         Result(update_block_list(channel, epoch_timestamp), TRUE))

\* the clock advances between calls
Tick ==
    /\ now < MaxTime
    /\ now' = now + 1
    /\ last' = [op |-> "tick", username |-> last.username, duration |-> 0,
                ret |-> TRUE, exc |-> "none"]
    /\ UNCHANGED <<channel, fresh, trip, threads, channels, users, response>>

Next ==
    \/ PromoteAdmin
    \/ DemoteAdmin
    \/ PromoteChiefAdmin
    \/ Subscribe
    \/ Unsubscribe
    \/ IsBlocked
    \/ Block
    \/ UpdateBlockList
    \/ Tick

Spec == Init /\ [][Next]_vars

\* ------------------------------------------------- the release of bans
\* the condition under which update_block_list scans the black list
scans(c, timestamp) == c.min_release_time # 0 /\ timestamp > c.min_release_time

\* a call that records which entries were written since the last scan
TrackedCall(op, username, duration, r, scanned) ==
    /\ channel' = r.ch
    /\ last' = [op |-> op, username |-> username, duration |-> duration,
                ret |-> r.ret, exc |-> r.exc]
    /\ fresh' = IF op = "block" /\ r.ret THEN fresh \cup {username}
                ELSE IF scanned THEN {}
                ELSE fresh
    /\ UNCHANGED <<now, trip, threads, channels, users, response>>

ExpBlock ==
    \E u \in Users, d \in Durations :
        TrackedCall("block", u, d, block(channel, u, d, epoch_timestamp), FALSE)

ExpIsBlocked ==
    \E u \in Users :
        TrackedCall("is_blocked", u, 0, is_blocked(channel, u, epoch_timestamp),
                    scans(channel, epoch_timestamp))

ExpUpdateBlockList ==
    TrackedCall("update_block_list", last.username, 0,
                Result(update_block_list(channel, epoch_timestamp), TRUE),
                scans(channel, epoch_timestamp))

ExpSubscribe ==
    \E u \in Users :
        TrackedCall("subscribe", u, 0, subscribe(channel, u, epoch_timestamp),
                    scans(channel, epoch_timestamp))

ExpPromoteAdmin ==
    \E u \in Users :
        TrackedCall("promote_admin", u, 0, promote_admin(channel, u, epoch_timestamp),
                    is_subscribed(channel, u) /\ scans(channel, epoch_timestamp))

ExpDemoteAdmin ==
    \E u \in Users :
        TrackedCall("demote_admin", u, 0, demote_admin(channel, u), FALSE)

\* unsubscribe and promote_chief_admin read no clock and run no scan
ExpUnsubscribe ==
    \E u \in Users :
        TrackedCall("unsubscribe", u, 0, unsubscribe(channel, u), FALSE)

ExpPromoteChiefAdmin ==
    \E u \in Users :
        TrackedCall("promote_chief_admin", u, 0, promote_chief_admin(channel, u), FALSE)

NextExpiry ==
    \/ ExpBlock
    \/ ExpIsBlocked
    \/ ExpUpdateBlockList
    \/ ExpSubscribe
    \/ ExpPromoteAdmin
    \/ ExpDemoteAdmin
    \/ ExpUnsubscribe
    \/ ExpPromoteChiefAdmin
    \/ Tick

SpecExpiry == Init /\ [][NextExpiry]_vars

\* ------------------------------------------------------ the round trip
\* subscribe(u), unsubscribe(u), subscribe(u) are three calls; any other
\* call on the channel can be served between them and time can pass.
\* trip.at counts the calls of the round trip made so far; trip keeps the
\* chief admin and the black list seen when it began, whether every call
\* of it returned True, and which calls were served in between.
TripStep(c, t) ==
    /\ channel' = c
    /\ trip' = t
    /\ UNCHANGED <<now, last, fresh, threads, channels, users, response>>

\* a call that is not one of the three, noted when a round trip is under way
Between(op, username) ==
    IF trip.at \in {1, 2}
    THEN [trip EXCEPT
            !.block_user = @ \/ (op = "block" /\ username = trip.username),
            !.block_any = @ \/ op = "block",
            !.transfer = @ \/ op = "promote_chief_admin"]
    ELSE trip

\* the round trips followed are those of a user who is neither the chief
\* admin nor a key of the black list when the first call is made
TripSubscribeFirst ==
    /\ trip.at = 0
    /\ \E u \in Users \ ({channel.chief_admin} \cup DOMAIN channel.black_list) :
          LET r == subscribe(channel, u, epoch_timestamp)
          IN TripStep(r.ch,
                      [at |-> 1, username |-> u,
                       chief_admin |-> channel.chief_admin,
                       black_list |-> channel.black_list,
                       ok |-> r.ret /\ r.exc = "none",
                       block_user |-> FALSE, block_any |-> FALSE,
                       transfer |-> FALSE])

TripUnsubscribe ==
    /\ trip.at = 1
    /\ LET r == unsubscribe(channel, trip.username)
       IN TripStep(r.ch, [trip EXCEPT !.at = 2,
                                      !.ok = @ /\ r.ret /\ r.exc = "none"])

TripSubscribeAgain ==
    /\ trip.at = 2
    /\ LET r == subscribe(channel, trip.username, epoch_timestamp)
       IN TripStep(r.ch, [trip EXCEPT !.at = 3,
                                      !.ok = @ /\ r.ret /\ r.exc = "none"])

RtSubscribe ==
    /\ trip.at < 3
    /\ \E u \in Users :
          TripStep(subscribe(channel, u, epoch_timestamp).ch, Between("subscribe", u))

RtUnsubscribe ==
    /\ trip.at < 3
    /\ \E u \in Users :
          TripStep(unsubscribe(channel, u).ch, Between("unsubscribe", u))

RtPromoteAdmin ==
    /\ trip.at < 3
    /\ \E u \in Users :
          TripStep(promote_admin(channel, u, epoch_timestamp).ch,
                   Between("promote_admin", u))

RtPromoteChiefAdmin ==
    /\ trip.at < 3
    /\ \E u \in Users :
          TripStep(promote_chief_admin(channel, u).ch,
                   Between("promote_chief_admin", u))

RtBlock ==
    /\ trip.at < 3
    /\ \E u \in Users, d \in Durations :
          TripStep(block(channel, u, d, epoch_timestamp).ch, Between("block", u))

RtDemoteAdmin ==
    /\ trip.at < 3
    /\ \E u \in Users :
          TripStep(demote_admin(channel, u).ch, Between("demote_admin", u))

RtIsBlocked ==
    /\ trip.at < 3
    /\ \E u \in Users :
          TripStep(is_blocked(channel, u, epoch_timestamp).ch,
                   Between("is_blocked", u))

RtTick ==
    /\ trip.at < 3
    /\ now < MaxTripTime
    /\ now' = now + 1
    /\ UNCHANGED <<channel, last, fresh, trip, threads, channels, users, response>>

NextRoundTrip ==
    \/ TripSubscribeFirst
    \/ TripUnsubscribe
    \/ TripSubscribeAgain
    \/ RtSubscribe
    \/ RtUnsubscribe
    \/ RtPromoteAdmin
    \/ RtPromoteChiefAdmin
    \/ RtBlock
    \/ RtDemoteAdmin
    \/ RtIsBlocked
    \/ RtTick

SpecRoundTrip == Init /\ [][NextRoundTrip]_vars

\* ------------------------------------------- concurrent block requests
\* two requests, each running Channel.block on the same channel while it
\* holds the lock of the channel
Threads == {"t1", "t2"}

InitConcurrent ==
    /\ now = 1
    /\ \E founder \in Users :
          /\ channel = Channel(founder)
          /\ last = [op |-> "init", username |-> founder, duration |-> 0,
                     ret |-> TRUE, exc |-> "none"]
    /\ \E us \in [Threads -> Users], ds \in [Threads -> Durations] :
          threads = [lock |-> "free",
                     pc |-> [t \in Threads |->
                               [at |-> "idle", username |-> us[t], duration |-> ds[t],
                                timestamp |-> 0, ret |-> FALSE,
                                ch |-> Channel("")]]]
    /\ fresh = {}
    /\ trip = NoTrip
    /\ channels = NoChannels
    /\ users = NoUsers
    /\ response = NoResponse

\* a user subscribes before the two requests arrive
ConcSubscribe ==
    /\ \A t \in Threads : threads.pc[t].at = "idle"
    /\ \E u \in Users :
          /\ channel' = subscribe(channel, u, epoch_timestamp).ch
          /\ channel' # channel
    /\ UNCHANGED <<now, last, fresh, trip, threads, channels, users, response>>

Acquire(t) ==
    /\ threads.pc[t].at = "idle"
    /\ threads.lock = "free"
    /\ threads' = [threads EXCEPT !.lock = t, !.pc[t].at = "locked"]
    /\ UNCHANGED <<channel, now, last, fresh, trip, channels, users, response>>

\* the request reads the channel and the clock and computes the effect of
\* block
BlockCompute(t) ==
    /\ threads.pc[t].at = "locked"
    /\ LET me == threads.pc[t]
           r == block(channel, me.username, me.duration, epoch_timestamp)
       IN threads' = [threads EXCEPT !.pc[t] =
                         [me EXCEPT !.at = "computed", !.timestamp = epoch_timestamp,
                                    !.ret = r.ret, !.ch = r.ch]]
    /\ UNCHANGED <<channel, now, last, fresh, trip, channels, users, response>>

\* the request writes the fields of the channel
BlockCommit(t) ==
    /\ threads.pc[t].at = "computed"
    /\ channel' = threads.pc[t].ch
    /\ threads' = [threads EXCEPT !.pc[t].at = "committed"]
    /\ UNCHANGED <<now, last, fresh, trip, channels, users, response>>

Release(t) ==
    /\ threads.pc[t].at = "committed"
    /\ threads' = [threads EXCEPT !.lock = "free", !.pc[t].at = "done"]
    /\ UNCHANGED <<channel, now, last, fresh, trip, channels, users, response>>

ConcTick ==
    /\ now < MaxTime
    /\ now' = now + 1
    /\ UNCHANGED <<channel, last, fresh, trip, threads, channels, users, response>>

NextConcurrent ==
    \/ ConcSubscribe
    \/ \E t \in Threads : Acquire(t)
    \/ \E t \in Threads : BlockCompute(t)
    \/ \E t \in Threads : BlockCommit(t)
    \/ \E t \in Threads : Release(t)
    \/ ConcTick

SpecConcurrent == InitConcurrent /\ [][NextConcurrent]_vars

\* ------------------------------------------------ Channels and Users
ChannelNames == {"general", "random"}

\* the usernames that register, sooner or later
Registrants == {"alice", "bob"}

RegDurations == {0}

\* the outcome of a handler: _channels afterwards and response.status
Answer(chs, status) == [channels |-> chs, status |-> status]

\* _channels[channel_name] = c
Store(chs, channel_name, c) ==
    [n \in DOMAIN chs \cup {channel_name} |-> IF n = channel_name THEN c ELSE chs[n]]

validate_channel_name(chs, channel_name) == channel_name \in DOMAIN chs

\* the passwords and the email addresses of the requests
Passwords == {"pw"}

Emails == {"a@x", "nobody@x"}

\* what a registrant registers with
RegPassword == "pw"

RegEmail == "a@x"

\* User.__init__; the username is the key of the User in _users; config
\* and profile are only read back in the bodies of the answers
User(username, password, email) == [password |-> password, email |-> email]

validate_username(dir, username) == username \in DOMAIN dir

\* the outcome of a handler of Users: _users afterwards and response.status
Reply(dir, status) == [users |-> dir, status |-> status]

on_post_register(dir, username, password, email) ==
    IF username \notin DOMAIN dir
    THEN Reply([u \in DOMAIN dir \cup {username} |->
                    IF u = username THEN User(username, password, email) ELSE dir[u]],
               201)
    ELSE Reply(dir, 409)

on_put_change_password(dir, password, username) ==
    Reply([dir EXCEPT ![username].password = password], 200)

on_put_verify_email(dir, email, username) ==
    LET user == dir[username]
    IN  IF user.email = email THEN Reply(dir, 200) ELSE Reply(dir, 422)

on_get_user_config(dir, username) == Reply(dir, 200)

on_put_user_config(dir, username) == Reply(dir, 200)

on_get_user_profile(dir, username) == Reply(dir, 200)

\* the decorator of the handlers that take a channel name: an unknown
\* name is answered as not found and the handler does not run
verify_channel(chs, channel_name, answer) ==
    IF validate_channel_name(chs, channel_name) THEN answer ELSE Answer(chs, 404)

\* on_post_channel that does not look for an existing channel
on_post_channel_Overwrites(chs, username, channel_name) ==
    Answer(Store(chs, channel_name, Channel(username)), 201)

on_post_channel(chs, username, channel_name) ==
    IF channel_name \notin DOMAIN chs
    THEN Answer(Store(chs, channel_name, Channel(username)), 201)
    ELSE Answer(chs, 409)

\* on_delete_channel that lets every admin delete the channel
on_delete_channel_AnyAdmin(chs, username, channel_name) ==
    IF is_admin(chs[channel_name], username)
    THEN Answer([n \in DOMAIN chs \ {channel_name} |-> chs[n]], 200)
    ELSE Answer(chs, 403)

on_delete_channel(chs, username, channel_name) ==
    IF is_chief_admin(chs[channel_name], username)
    THEN Answer([n \in DOMAIN chs \ {channel_name} |-> chs[n]], 200)
    ELSE Answer(chs, 403)

on_post_subscribe(chs, username, channel_name, timestamp) ==
    LET r == subscribe(chs[channel_name], username, timestamp)
    IN Answer(Store(chs, channel_name, r.ch), IF r.ret THEN 200 ELSE 422)

on_delete_unsubscribe(chs, username, channel_name) ==
    LET r == unsubscribe(chs[channel_name], username)
    IN Answer(Store(chs, channel_name, r.ch), IF r.ret THEN 200 ELSE 422)

\* all([...]) evaluates the three elements of the list before it looks at
\* any of them, so block runs whatever the two tests say
on_post_block_user(chs, dir, user, username, duration, channel_name, timestamp) ==
    LET is_admin_user == is_admin(chs[channel_name], user)
        valid == validate_username(dir, username)
        r == block(chs[channel_name], username, duration, timestamp)
    IN Answer(Store(chs, channel_name, r.ch),
              IF is_admin_user /\ valid /\ r.ret THEN 200 ELSE 422)

on_get_black_list(chs, channel_name, timestamp) ==
    Answer(Store(chs, channel_name, update_block_list(chs[channel_name], timestamp)),
           200)

on_get_chnl_subscriptions(chs, channel_name) == Answer(chs, 200)

on_get_channel_names(chs) == Answer(chs, 200)

Handle(handler, channel_name, user, username, duration, answer) ==
    /\ channels' = answer.channels
    /\ response' = [handler |-> handler, channel_name |-> channel_name,
                    user |-> user, username |-> username, duration |-> duration,
                    status |-> answer.status]
    /\ UNCHANGED <<channel, now, last, fresh, trip, threads, users>>

InitRegistry ==
    /\ now = 1
    /\ channel = Channel("")
    /\ last = [op |-> "init", username |-> "", duration |-> 0,
               ret |-> TRUE, exc |-> "none"]
    /\ fresh = {}
    /\ trip = NoTrip
    /\ threads = NoThreads
    /\ channels = NoChannels
    /\ users = NoUsers
    /\ response = NoResponse

\* Users.on_post_register
HandleUsers(handler, username, reply) ==
    /\ users' = reply.users
    /\ response' = [handler |-> handler, channel_name |-> "", user |-> "",
                    username |-> username, duration |-> 0, status |-> reply.status]
    /\ UNCHANGED <<channel, now, last, fresh, trip, threads, channels>>

OnPostRegister ==
    \E username \in Registrants :
        HandleUsers("on_post_register", username,
                    on_post_register(users, username, RegPassword, RegEmail))

\* verify_username and verify_user let a handler run for a registered
\* username; the session key is looked up by expect_session_key, and the
\* session that on_put_change_password ends is kept by the session resource
OnPutChangePassword ==
    \E username \in DOMAIN users, password \in Passwords :
        HandleUsers("on_put_change_password", username,
                    on_put_change_password(users, password, username))

OnPutVerifyEmail ==
    \E username \in DOMAIN users, email \in Emails :
        HandleUsers("on_put_verify_email", username,
                    on_put_verify_email(users, email, username))

OnGetUserConfig ==
    \E username \in DOMAIN users :
        HandleUsers("on_get_user_config", username, on_get_user_config(users, username))

OnPutUserConfig ==
    \E username \in DOMAIN users :
        HandleUsers("on_put_user_config", username, on_put_user_config(users, username))

OnGetUserProfile ==
    \E username \in DOMAIN users :
        HandleUsers("on_get_user_profile", username, on_get_user_profile(users, username))

\* the user of a session is a registered user
OnPostChannel ==
    \E user \in DOMAIN users, n \in ChannelNames :
        Handle("on_post_channel", n, user, "", 0, on_post_channel(channels, user, n))

OnDeleteChannel ==
    \E user \in DOMAIN users, n \in ChannelNames :
        Handle("on_delete_channel", n, user, "", 0,
               verify_channel(channels, n, on_delete_channel(channels, user, n)))

OnPostSubscribe ==
    \E user \in DOMAIN users, n \in ChannelNames :
        Handle("on_post_subscribe", n, user, "", 0,
               verify_channel(channels, n,
                              on_post_subscribe(channels, user, n, epoch_timestamp)))

OnDeleteUnsubscribe ==
    \E user \in DOMAIN users, n \in ChannelNames :
        Handle("on_delete_unsubscribe", n, user, "", 0,
               verify_channel(channels, n, on_delete_unsubscribe(channels, user, n)))

\* the target of the request is a registrant, registered by now or not
OnPostBlockUser ==
    \E user \in DOMAIN users, n \in ChannelNames, username \in Registrants, d \in RegDurations :
        Handle("on_post_block_user", n, user, username, d,
               verify_channel(channels, n,
                              on_post_block_user(channels, users, user, username, d, n,
                                                 epoch_timestamp)))

OnGetBlackList ==
    \E user \in DOMAIN users, n \in ChannelNames :
        Handle("on_get_black_list", n, user, "", 0,
               verify_channel(channels, n,
                              on_get_black_list(channels, n, epoch_timestamp)))

OnGetChnlSubscriptions ==
    \E user \in DOMAIN users, n \in ChannelNames :
        Handle("on_get_chnl_subscriptions", n, user, "", 0,
               verify_channel(channels, n, on_get_chnl_subscriptions(channels, n)))

OnGetChannelNames ==
    \E user \in DOMAIN users :
        Handle("on_get_channel_names", "", user, "", 0, on_get_channel_names(channels))

\* the clock advances between requests
RegistryTick ==
    /\ now < MaxRegistryTime
    /\ now' = now + 1
    /\ response' = [handler |-> "tick", channel_name |-> "", user |-> "",
                    username |-> "", duration |-> 0, status |-> 0]
    /\ UNCHANGED <<channel, last, fresh, trip, threads, channels, users>>

\* Channel.promote_admin and Channel.promote_chief_admin called on a
\* channel of the registry
PromoteIn ==
    \E username \in DOMAIN users, n \in DOMAIN channels :
        \/ Handle("promote_admin", n, "", username, 0,
                  Answer(Store(channels, n,
                               promote_admin(channels[n], username, epoch_timestamp).ch),
                         0))
        \/ Handle("promote_chief_admin", n, "", username, 0,
                  Answer(Store(channels, n,
                               promote_chief_admin(channels[n], username).ch), 0))

NextRegistry ==
    \/ OnPostRegister
    \/ OnPutChangePassword
    \/ OnPutVerifyEmail
    \/ OnGetUserConfig
    \/ OnPutUserConfig
    \/ OnGetUserProfile
    \/ OnPostChannel
    \/ OnDeleteChannel
    \/ OnPostSubscribe
    \/ OnDeleteUnsubscribe
    \/ OnPostBlockUser
    \/ OnGetBlackList
    \/ OnGetChnlSubscriptions
    \/ OnGetChannelNames
    \/ RegistryTick
    \/ PromoteIn

SpecRegistry == InitRegistry /\ [][NextRegistry]_vars

TypeOK ==
    /\ channel.chief_admin \in Users
    /\ channel.admins \subseteq Users
    /\ channel.subscribers \subseteq Users
    /\ DOMAIN channel.black_list \subseteq Users
    /\ channel.min_release_time \in 0 .. (MaxTime + MaxDuration)
    /\ now \in 1 .. MaxTime

\* ---------------------------------------------------------- properties
Banned == DOMAIN channel.black_list

\* the smallest release time of a non-empty black list
MinExpiry(bl) == CHOOSE t \in {bl[u] : u \in DOMAIN bl} :
                     \A v \in DOMAIN bl : t <= bl[v]

\* C1: every ban expires: is_blocked(u) called at a time strictly greater
\* than the release time recorded for u returns false and leaves u out of
\* the black list, whatever happened on the channel before.
C1_EveryBanExpires ==
    [][\A u \in Users :
         (/\ last'.op = "is_blocked"
          /\ last'.username = u
          /\ u \in DOMAIN channel.black_list
          /\ now > channel.black_list[u])
         => (~last'.ret /\ u \notin DOMAIN channel'.black_list)]_vars

\* C2: the chief admin is never a member of admins.
C2_ChiefNotInAdmins == channel.chief_admin \notin channel.admins

\* C3: demote_admin called on the chief admin never raises: it returns
\* success and the chief admin is not stored in admins afterwards.
C3_DemoteChiefNeverRaises ==
    (last.op = "demote_admin" /\ last.username = channel.chief_admin)
    => (last.exc = "none" /\ last.ret /\ channel.chief_admin \notin channel.admins)

\* C4: no username is at the same time a subscriber and a key of the
\* black list.
C4_SubscribedNotBanned == channel.subscribers \cap Banned = {}

C4_Witness ==
    /\ last.op = "block"
    /\ last.ret
    /\ last.username \in Banned
    /\ Cardinality(channel.subscribers) >= 2

\* C5: the chief admin is a subscriber and is not a key of the black list,
\* also after chief authority has been transferred.
C5_ChiefSubscribedNotBanned ==
    /\ channel.chief_admin \in channel.subscribers
    /\ channel.chief_admin \notin Banned

C5_Witness ==
    /\ last.op = "unsubscribe"
    /\ last.username = channel.chief_admin
    /\ ~last.ret
    /\ channel.chief_admin \in channel.admins
    /\ Banned # {}

\* C6: block on the chief admin or on a member of admins returns failure
\* and leaves subscribers, admins, black list and min_release_time as
\* they were.
C6_BlockPrivilegedFails ==
    [][(/\ last'.op = "block"
        /\ (last'.username = channel.chief_admin
            \/ last'.username \in channel.admins))
       => (~last'.ret /\ last'.exc = "none" /\ channel' = channel)]_vars

C6_Witness ==
    /\ last.op = "block"
    /\ ~last.ret
    /\ last.username \in channel.admins
    /\ last.username # channel.chief_admin
    /\ Banned # {}

\* C7: when the purge runs with min_release_time set and the current time
\* strictly greater than it, afterwards the black list holds no entry with
\* release time <= the current time and min_release_time is the minimum
\* release time of the remaining entries, or none (0) if none remains.
C7_PurgeRecomputesMinimum ==
    [][(/\ last'.op \in {"is_blocked", "update_block_list"}
        /\ channel.min_release_time # 0
        /\ now > channel.min_release_time)
       => (/\ \A u \in DOMAIN channel'.black_list : channel'.black_list[u] > now
           /\ channel'.min_release_time =
                 IF DOMAIN channel'.black_list = {} THEN 0
                 ELSE MinExpiry(channel'.black_list))]_vars

\* C8: promote_admin(u) returns failure and leaves admins unchanged if u
\* is not subscribed, or is banned, or is the chief admin; otherwise it
\* returns success and u is a member of admins afterwards.
C8_PromoteAdmin ==
    [][last'.op = "promote_admin"
       => LET u == last'.username
          IN /\ last'.exc = "none"
             /\ IF \/ u \notin channel.subscribers
                   \/ u \in DOMAIN channel.black_list
                   \/ u = channel.chief_admin
                THEN ~last'.ret /\ channel'.admins = channel.admins
                ELSE last'.ret /\ u \in channel'.admins]_vars

C8_Witness ==
    /\ last.op = "promote_admin"
    /\ last.ret
    /\ last.username \in channel.admins
    /\ last.username # channel.chief_admin

\* C9: promote_chief_admin(u) returns failure and leaves chief_admin and
\* admins unchanged if u is not an admin (not a member of admins); when it
\* succeeds, chief_admin is u afterwards and the outgoing chief admin is a
\* member of admins.
C9_PromoteChiefAdmin ==
    [][last'.op = "promote_chief_admin"
       => LET u == last'.username
          IN /\ last'.exc = "none"
             /\ u \notin channel.admins
                  => /\ ~last'.ret
                     /\ channel'.chief_admin = channel.chief_admin
                     /\ channel'.admins = channel.admins
             /\ last'.ret
                  => /\ channel'.chief_admin = u
                     /\ channel.chief_admin \in channel'.admins]_vars

\* C10: unsubscribe(u) returns failure and changes nothing when u is the
\* chief admin; for every other u it returns success without raising,
\* u is afterwards in neither admins nor subscribers, and the black list
\* is unchanged.
C10_Unsubscribe ==
    [][last'.op = "unsubscribe"
       => LET u == last'.username
          IN IF u = channel.chief_admin
             THEN ~last'.ret /\ last'.exc = "none" /\ channel' = channel
             ELSE /\ last'.ret
                  /\ last'.exc = "none"
                  /\ u \notin channel'.admins
                  /\ u \notin channel'.subscribers
                  /\ channel'.black_list = channel.black_list
                  /\ channel'.min_release_time = channel.min_release_time
                  /\ channel'.chief_admin = channel.chief_admin]_vars

C10_Witness ==
    /\ last.op = "unsubscribe"
    /\ last.ret
    /\ last.username \notin channel.subscribers
    /\ Banned # {}
    /\ channel.admins # {}

\* C11: every member of admins is also a member of subscribers.
C11_AdminsSubscribed == channel.admins \subseteq channel.subscribers

C11_Witness ==
    /\ last.op = "unsubscribe"
    /\ last.ret
    /\ channel.admins \ {channel.chief_admin} # {}
    /\ Cardinality(channel.subscribers) = 2

\* C12: while u is a key of the black list and the current time is not
\* greater than its release time, is_blocked(u) returns true and
\* subscribe(u) returns failure leaving subscribers unchanged; when u is
\* not a key of the black list, subscribe(u) returns success and u is a
\* subscriber afterwards.
C12_BannedCannotSubscribe ==
    [][\A u \in Users :
         /\ (/\ last'.username = u
             /\ last'.op \in {"is_blocked", "subscribe"}
             /\ u \in DOMAIN channel.black_list
             /\ now <= channel.black_list[u])
            => IF last'.op = "is_blocked" THEN last'.ret
               ELSE ~last'.ret /\ channel'.subscribers = channel.subscribers
         /\ (/\ last'.username = u
             /\ last'.op = "subscribe"
             /\ u \notin DOMAIN channel.black_list)
            => (last'.ret /\ last'.exc = "none" /\ u \in channel'.subscribers)]_vars

C12_Witness ==
    /\ last.op = "subscribe"
    /\ ~last.ret
    /\ last.username \in Banned
    /\ now <= channel.black_list[last.username]
    /\ channel.min_release_time = 0

\* C19 as stated: a key leaves the black list only in a purge step
\* (is_blocked, update_block_list) at a time strictly greater than its
\* release time, and promote_admin, demote_admin, promote_chief_admin,
\* subscribe and unsubscribe leave the black list as it was.
C19_Original ==
    [][/\ \A u \in DOMAIN channel.black_list :
            u \notin DOMAIN channel'.black_list
            => (/\ now > channel.black_list[u]
                /\ last'.op \in {"is_blocked", "update_block_list"})
       /\ last'.op \in {"promote_admin", "demote_admin", "promote_chief_admin",
                        "subscribe", "unsubscribe"}
            => channel'.black_list = channel.black_list]_vars

\* C19 amended: a key leaves the black list only through the purge (run by
\* is_blocked and update_block_list, and by subscribe and promote_admin
\* before they act) and only when the current time is strictly greater
\* than its release time; demote_admin, promote_chief_admin and
\* unsubscribe leave the black list as it was, and promote_admin and
\* subscribe add no entry and alter none.
C19_NeverLiftedEarly ==
    [][/\ \A u \in DOMAIN channel.black_list :
            u \notin DOMAIN channel'.black_list
            => (/\ now > channel.black_list[u]
                /\ last'.op \in {"is_blocked", "update_block_list",
                                 "subscribe", "promote_admin"})
       /\ last'.op \in {"demote_admin", "promote_chief_admin", "unsubscribe"}
            => channel'.black_list = channel.black_list
       /\ last'.op \in {"promote_admin", "subscribe"}
            => \A u \in DOMAIN channel'.black_list :
                  /\ u \in DOMAIN channel.black_list
                  /\ channel'.black_list[u] = channel.black_list[u]]_vars

C19_Witness ==
    /\ last.op = "subscribe"
    /\ last.ret
    /\ Banned # {}
    /\ channel.min_release_time = 0
    /\ \E u \in Banned : channel.black_list[u] >= now

\* C20: no key of the black list is a member of admins.
C20_BannedNotAdmin == Banned \cap channel.admins = {}

C20_Witness ==
    /\ last.op = "promote_admin"
    /\ ~last.ret
    /\ last.username \in Banned
    /\ channel.admins # {}

\* C17: whenever min_release_time is set it is <= the release time of
\* every black_list entry written by block since the last scan of the
\* purge, and a successful block sets min_release_time from none (0) to
\* the new release time or lowers it, never raises it.
C17_MinReleaseBelowFresh ==
    /\ [](channel.min_release_time # 0
          => \A u \in fresh : /\ u \in Banned
                              /\ channel.min_release_time <= channel.black_list[u])
    /\ [][(last'.op = "block" /\ last'.ret)
          => IF channel.min_release_time = 0
             THEN channel'.min_release_time = channel'.black_list[last'.username]
             ELSE channel'.min_release_time <= channel.min_release_time]_vars

C17_Witness ==
    /\ last.op = "block"
    /\ last.ret
    /\ channel.min_release_time # 0
    /\ fresh # {}
    /\ \E v \in Banned \ fresh : channel.black_list[v] < channel.min_release_time

\* the round trip began with its user neither chief admin nor a key of
\* the black list
TripOfPlainUser ==
    /\ trip.username # trip.chief_admin
    /\ trip.username \notin DOMAIN trip.black_list

\* C13 as stated: for u that is not the chief admin and not a key of the
\* black list, subscribe(u), unsubscribe(u), subscribe(u) with no block of
\* u in between succeeds at each step and ends with u subscribed,
\* chief_admin and black_list the same as before.
C13_Original ==
    (trip.at = 3 /\ TripOfPlainUser /\ ~trip.block_user)
    => (/\ trip.ok
        /\ trip.username \in channel.subscribers
        /\ channel.chief_admin = trip.chief_admin
        /\ channel.black_list = trip.black_list)

\* C13 amended: with no block and no promote_chief_admin call in between,
\* the sequence succeeds at each step and ends with u subscribed and
\* chief_admin the same as before; the black list is the same as before
\* except for entries whose release time has passed, which the purge may
\* have removed.
C13_RoundTrip ==
    (trip.at = 3 /\ TripOfPlainUser /\ ~trip.block_any /\ ~trip.transfer)
    => (/\ trip.ok
        /\ trip.username \in channel.subscribers
        /\ channel.chief_admin = trip.chief_admin
        /\ DOMAIN channel.black_list \subseteq DOMAIN trip.black_list
        /\ \A v \in DOMAIN trip.black_list :
              IF v \in DOMAIN channel.black_list
              THEN channel.black_list[v] = trip.black_list[v]
              ELSE trip.black_list[v] < now)

C13_Witness ==
    /\ trip.at = 3
    /\ TripOfPlainUser
    /\ ~trip.block_any
    /\ ~trip.transfer
    /\ trip.ok
    /\ trip.username \in channel.admins
    /\ DOMAIN trip.black_list # Banned

\* C16: two block requests for two different users that are neither
\* admins nor the chief admin, each run under the lock of the channel, are
\* both recorded in either order: when both are done both users are keys
\* of the black list with their own release times and min_release_time is
\* set and not greater than the smaller of the two.
C16_BothBlocksRecorded ==
    LET a == threads.pc["t1"]
        b == threads.pc["t2"]
    IN (/\ a.at = "done"
        /\ b.at = "done"
        /\ a.username # b.username
        /\ ~is_admin(channel, a.username)
        /\ ~is_admin(channel, b.username))
       => (/\ a.ret
           /\ b.ret
           /\ {a.username, b.username} \subseteq Banned
           /\ channel.black_list[a.username] = max(a.duration, 0) + a.timestamp
           /\ channel.black_list[b.username] = max(b.duration, 0) + b.timestamp
           /\ channel.min_release_time # 0
           /\ channel.min_release_time <= channel.black_list[a.username]
           /\ channel.min_release_time <= channel.black_list[b.username])

C16_Witness ==
    /\ threads.lock = "free"
    /\ threads.pc["t1"].at = "done"
    /\ threads.pc["t2"].at = "done"
    /\ threads.pc["t1"].username # threads.pc["t2"].username
    /\ threads.pc["t1"].ret
    /\ threads.pc["t2"].ret
    /\ threads.pc["t2"].timestamp < threads.pc["t1"].timestamp
    /\ channel.black_list[threads.pc["t1"].username]
         # channel.black_list[threads.pc["t2"].username]

\* C14: a channel leaves the registry only by an on_delete_channel request
\* of its current chief admin; an on_delete_channel request of anybody
\* else, or for a name that does not exist, fails and leaves the registry
\* and every channel as they were.
C14_DeleteByChiefOnly ==
    [][/\ \A n \in DOMAIN channels :
            n \notin DOMAIN channels'
            => (/\ response'.handler = "on_delete_channel"
                /\ response'.channel_name = n
                /\ response'.user = channels[n].chief_admin
                /\ response'.status = 200)
       /\ (/\ response'.handler = "on_delete_channel"
           /\ \/ response'.channel_name \notin DOMAIN channels
              \/ response'.user # channels[response'.channel_name].chief_admin)
          => (response'.status \in {403, 404} /\ channels' = channels)]_vars

C14_Witness ==
    /\ response.handler = "on_delete_channel"
    /\ response.status = 403
    /\ response.channel_name \in DOMAIN channels
    /\ response.user \in channels[response.channel_name].admins
    /\ Cardinality(DOMAIN channels) = 2

\* C15: on_post_channel fails when the name exists and leaves the
\* existing channel as it was; otherwise it inserts a channel whose chief
\* admin and only subscriber is the founder, with no admins and an empty
\* black list.
C15_CreateChannel ==
    [][response'.handler = "on_post_channel"
       => LET n == response'.channel_name
          IN IF n \in DOMAIN channels
             THEN response'.status = 409 /\ channels' = channels
             ELSE /\ response'.status = 201
                  /\ DOMAIN channels' = DOMAIN channels \cup {n}
                  /\ \A m \in DOMAIN channels : channels'[m] = channels[m]
                  /\ channels'[n].chief_admin = response'.user
                  /\ channels'[n].subscribers = {response'.user}
                  /\ channels'[n].admins = {}
                  /\ DOMAIN channels'[n].black_list = {}]_vars

C15_Witness ==
    /\ response.handler = "on_post_channel"
    /\ response.status = 409
    /\ channels[response.channel_name].chief_admin # response.user
    /\ DOMAIN channels[response.channel_name].black_list # {}
    /\ channels[response.channel_name].admins # {}

\* C18: an on_post_block_user request whose requester is not an admin or
\* the chief admin of the channel, or whose target is not a registered
\* username, is answered 422 and leaves the channel as it was.
C18_BlockRequestChecked ==
    [][(/\ response'.handler = "on_post_block_user"
        /\ response'.channel_name \in DOMAIN channels
        /\ \/ ~is_admin(channels[response'.channel_name], response'.user)
           \/ response'.username \notin DOMAIN users)
       => (response'.status = 422 /\ channels' = channels)]_vars
====
